---- MODULE Spec2Model ----
(***************************************************************************)
(* A model of pdf_redact.py: the per-page matcher                          *)
(* find_and_redact_text_on_page, the OCR helper                            *)
(* ocr_page_to_get_text_and_boxes, the classifier is_likely_scanned_pdf    *)
(* and the driver redact_account_numbers_from_pdf.                         *)
(*                                                                         *)
(* Text is a sequence of one-character strings.  A page carries one        *)
(* modelled text line (characters at known positions), a count of further  *)
(* prose characters that no pattern matches, and the text shown by a       *)
(* scanned image on the page.  Regular expressions are syntax trees with a *)
(* matcher written out below; the document engine and the OCR engine are   *)
(* the environment.                                                        *)
(***************************************************************************)
EXTENDS Integers, Sequences, FiniteSets, TLC

(***************************************************************************)
(* Characters                                                              *)
(***************************************************************************)
Digits == {"0", "1", "2", "3", "4", "5", "6", "7", "8", "9"}

LowerLetters == {"a", "b", "c", "d", "e", "i", "l", "m", "n", "o", "r", "s", "t", "u"}

UpperLetters == {"A", "D", "N"}

Blank == " "

Spaces == {Blank}

\* str.upper() on the letters the model uses
Upper(c) ==
  CASE c = "a" -> "A"
    [] c = "d" -> "D"
    [] c = "n" -> "N"
    [] OTHER -> c

\* str.lower() on the letters the model uses
Lower(c) ==
  CASE c = "A" -> "a"
    [] c = "D" -> "d"
    [] c = "N" -> "n"
    [] OTHER -> c

WordChars == Digits \cup LowerLetters \cup UpperLetters \cup {"_"}

\* \w of Python's re
IsWordChar(c) == c \in WordChars

(***************************************************************************)
(* Regular expressions: syntax trees and the matcher of re / search_for    *)
(***************************************************************************)
Chr(c) == [k |-> "chr", c |-> c]

Cls(S) == [k |-> "cls", cs |-> S]

WordB == [k |-> "wb"]

Cat(rs) == [k |-> "cat", rs |-> rs]

Alt(rs) == [k |-> "alt", rs |-> rs]

\* r{lo,hi}; hi = -1 stands for no upper limit (r*, r+)
Rep(r, lo, hi) == [k |-> "rep", r |-> r, lo |-> lo, hi |-> hi]

Opt(r) == Rep(r, 0, 1)

Star(r) == Rep(r, 0, -1)

\* a literal word, one Chr per character
Word(w) == Cat([i \in 1..Len(w) |-> Chr(w[i])])

SetMax(S) == CHOOSE x \in S : \A y \in S : y <= x

SetMin(S) == CHOOSE x \in S : \A y \in S : x <= y

RECURSIVE Ends(_, _, _, _), CatEnds(_, _, _, _, _), RepEnds(_, _, _, _, _)

\* the positions j such that r matches s[i..j-1]; ic is re.IGNORECASE
Ends(r, s, i, ic) ==
  CASE r.k = "chr" ->
         IF i <= Len(s) /\ (s[i] = r.c \/ (ic /\ Lower(s[i]) = Lower(r.c)))
           THEN {i + 1} ELSE {}
    [] r.k = "cls" ->
         IF i <= Len(s) /\ (s[i] \in r.cs \/ (ic /\ (Lower(s[i]) \in r.cs \/ Upper(s[i]) \in r.cs)))
           THEN {i + 1} ELSE {}
    [] r.k = "wb" ->
         IF (i > 1 /\ IsWordChar(s[i - 1])) # (i <= Len(s) /\ IsWordChar(s[i]))
           THEN {i} ELSE {}
    [] r.k = "cat" -> CatEnds(r.rs, 1, s, {i}, ic)
    [] r.k = "alt" -> UNION {Ends(r.rs[n], s, i, ic) : n \in 1..Len(r.rs)}
    [] r.k = "rep" -> RepEnds(r, 0, s, {i}, ic)

\* the parts rs[n..] matched one after another from any position of from
CatEnds(rs, n, s, from, ic) ==
  IF n > Len(rs) \/ from = {} THEN from
  ELSE CatEnds(rs, n + 1, s, UNION {Ends(rs[n], s, p, ic) : p \in from}, ic)

\* r.r repeated: from holds the positions reached after n repetitions
RepEnds(r, n, s, from, ic) ==
  LET here == IF n >= r.lo THEN from ELSE {}
      next == UNION {Ends(r.r, s, p, ic) : p \in from}
  IN  IF (r.hi >= 0 /\ n >= r.hi) \/ from = {} \/ n > Len(s) THEN here
      ELSE here \cup RepEnds(r, n + 1, s, next, ic)

\* re.search(text) is not None
Search(r, s, ic) == \E i \in 1..(Len(s) + 1) : Ends(r, s, i, ic) # {}

RECURSIVE SpansFrom(_, _, _, _)

\* the successive matches of r in s from position p on, leftmost first,
\* each as <<first, last + 1>>, empty matches skipped
SpansFrom(r, s, p, ic) ==
  LET starts == {i \in p..Len(s) : Ends(r, s, i, ic) \ {i} # {}}
  IN  IF starts = {} THEN <<>>
      ELSE LET i == SetMin(starts)
               j == SetMax(Ends(r, s, i, ic))
           IN  <<<<i, j>>>> \o SpansFrom(r, s, j, ic)

(***************************************************************************)
(* Patterns: the source strings and what re.compile makes of them          *)
(***************************************************************************)
PatSpecific == "\\b123456789\\b"

PatGeneric == "\\b\\d{8,16}\\b"

PatGrouped == "\\b\\d{4}[-\\s]?\\d{4}[-\\s]?\\d{4}[-\\s]?\\d{0,4}\\b"

PatLabelled == "(?i)Account\\s*(?:Number|No\\.?|#)?\\s*[:\\-]?\\s*([A-Za-z0-9\\-]{6,20}\\b)"

\* a pattern a caller passes in custom_patterns
PatCustom == "\\b\\d{8,17}\\b"

\* a malformed pattern a caller passes in custom_patterns
PatMalformed == "("

account_number_patterns == <<PatSpecific, PatGeneric, PatGrouped, PatLabelled>>

PatternUniverse == {PatSpecific, PatGeneric, PatGrouped, PatLabelled, PatCustom, PatMalformed}

Sep == Opt(Cls({"-"} \cup Spaces))

AlNumDash == Cls(Digits \cup LowerLetters \cup UpperLetters \cup {"-"})

\* re.compile raises re.error on these
IsMalformed(p) == p = PatMalformed

\* the syntax tree of a pattern string
Tree(p) ==
  CASE p = PatSpecific ->
         Cat(<<WordB, Word(<<"1", "2", "3", "4", "5", "6", "7", "8", "9">>), WordB>>)
    [] p = PatGeneric -> Cat(<<WordB, Rep(Cls(Digits), 8, 16), WordB>>)
    [] p = PatCustom -> Cat(<<WordB, Rep(Cls(Digits), 8, 17), WordB>>)
    [] p = PatGrouped ->
         Cat(<<WordB, Rep(Cls(Digits), 4, 4), Sep, Rep(Cls(Digits), 4, 4), Sep,
               Rep(Cls(Digits), 4, 4), Sep, Rep(Cls(Digits), 0, 4), WordB>>)
    [] p = PatLabelled ->
         Cat(<<Word(<<"A", "c", "c", "o", "u", "n", "t">>), Star(Cls(Spaces)),
               Opt(Alt(<<Word(<<"N", "u", "m", "b", "e", "r">>),
                         Cat(<<Word(<<"N", "o">>), Opt(Chr("."))>>),
                         Chr("#")>>)),
               Star(Cls(Spaces)), Opt(Cls({":", "-"})), Star(Cls(Spaces)),
               Rep(AlNumDash, 6, 20), WordB>>)
    [] p = PatMalformed -> Chr("(")

\* every pattern of the model with its syntax tree
Trees == [p \in PatternUniverse |-> Tree(p)]

\* the inline flag (?i) of a pattern string
InlineIgnoreCase(p) == p = PatLabelled

(***************************************************************************)
(* Text lines                                                              *)
(***************************************************************************)
LineScenarioA ==
  <<"A", "c", "c", "o", "u", "n", "t", " ", "N", "u", "m", "b", "e", "r", ":", " ",
    "1", "2", "3", "4", "5", "6", "7", "8", "9", " ",
    "D", "e", "t", "a", "i", "l", "s">>

LineNoMatch == <<"N", "o", " ", "d", "a", "t", "a">>

LineOther == <<"9", "8", "7", "6", "5", "4", "3", "2", "1">>

NoText == <<>>

(***************************************************************************)
(* Pages and geometry.  A character cell of the text line is 6 points wide *)
(* and 12 high; the text line is row 0 of the page and the scanned image   *)
(* is row 1.  Rectangles are [x0, y0, x1, y1] in points.                   *)
(***************************************************************************)
text_threshold == 100

few_text_limit == 500

ocr_dpi == 300

conf_threshold == 60

PointsPerInch == 72

\* page.rect: 40 cells by 2 rows
PageRect == [x0 |-> 0, y0 |-> 0, x1 |-> 240, y1 |-> 24]

RectWidth(r) == r.x1 - r.x0

RectHeight(r) == r.y1 - r.y0

\* the rectangle of the cells a..b-1 of row y
CellRect(a, b, y) == [x0 |-> 6 * (a - 1), y0 |-> 12 * y, x1 |-> 6 * (b - 1), y1 |-> 12 * (y + 1)]

\* str.strip()
RECURSIVE LStrip(_), RStrip(_)

LStrip(s) == IF s # <<>> /\ Head(s) \in Spaces \cup {"\n"} THEN LStrip(Tail(s)) ELSE s

RStrip(s) ==
  IF s # <<>> /\ s[Len(s)] \in Spaces \cup {"\n"} THEN RStrip(SubSeq(s, 1, Len(s) - 1)) ELSE s

Strip(s) == RStrip(LStrip(s))

\* the prose of a page: n characters that no pattern matches, the last a newline
Prose(n) == [i \in 1..n |-> IF i = n THEN "\n" ELSE "x"]

\* the text of a row as extracted: nothing when every cell is blank
RowText(row) == IF \A i \in 1..Len(row) : row[i] = Blank THEN <<>> ELSE row \o <<"\n">>

\* page.get_text("text")
GetText(page) == Prose(page.filler) \o RowText(page.line)

RECURSIVE WordsFrom(_, _)

\* the words of a row from cell p on, each as <<first, last + 1>>
WordsFrom(row, p) ==
  LET starts == {i \in p..Len(row) : row[i] # Blank}
  IN  IF starts = {} THEN <<>>
      ELSE LET a == SetMin(starts)
               ends == {i \in a..Len(row) : row[i] = Blank}
               b == IF ends = {} THEN Len(row) + 1 ELSE SetMin(ends)
           IN  <<<<a, b>>>> \o WordsFrom(row, b)

\* page.get_text("words"): rectangle and text of every word of the text layer
GetWords(page) ==
  LET ws == WordsFrom(page.line, 1)
  IN  [n \in 1..Len(ws) |->
        [rect |-> CellRect(ws[n][1], ws[n][2], 0),
         text |-> SubSeq(page.line, ws[n][1], ws[n][2] - 1)]]

\* the states a text line can be in: any of its words may have been removed
LineStates(l) ==
  LET ws == WordsFrom(l, 1)
  IN  {[i \in 1..Len(l) |->
          IF \E n \in gone : ws[n][1] <= i /\ i < ws[n][2] THEN Blank ELSE l[i]] :
        gone \in SUBSET (1..Len(ws))}

TextLines == UNION {LineStates(l) : l \in {LineScenarioA, LineNoMatch, NoText}}

\* the matches of every pattern in every text line, worked out once
SpansIn == [l \in TextLines |-> [p \in PatternUniverse |-> SpansFrom(Trees[p], l, 1, InlineIgnoreCase(p))]]

\* page.search_for(pattern, flags=TEXT_SEARCH_REGEX): the rectangles of the matches
SearchFor(page, p) ==
  LET sp == SpansIn[page.line][p]
  IN  [n \in 1..Len(sp) |-> CellRect(sp[n][1], sp[n][2], 0)]

\* is_likely_scanned_pdf
is_likely_scanned_pdf(page) == Len(Strip(GetText(page))) < text_threshold

\* fitz.Rect intersection is not empty
Intersects(a, b) == a.x0 < b.x1 /\ b.x0 < a.x1 /\ a.y0 < b.y1 /\ b.y0 < a.y1

\* fitz.Rect a lies within b
Contains(b, a) == b.x0 <= a.x0 /\ b.y0 <= a.y0 /\ a.x1 <= b.x1 /\ a.y1 <= b.y1

\* page.add_redact_annot for every rectangle of rects, in order
AddAnnots(marks, rects, prov, p) ==
  marks \o [n \in 1..Len(rects) |-> [rect |-> rects[n], prov |-> prov, pat |-> p]]

\* the words a page can show: the unbroken pieces of the words of the lines
WordTexts ==
  LET pieces(l) == UNION {{SubSeq(l, a, b) : b \in a..Len(l)} : a \in 1..Len(l)}
  IN  {w \in UNION {pieces(l) : l \in {LineScenarioA, LineNoMatch, LineOther}} :
         \A i \in 1..Len(w) : w[i] # Blank}

\* compiled_pattern.search over every word text, worked out once per pattern
Found == [p \in PatternUniverse |-> [ic \in BOOLEAN |-> {w \in WordTexts : Search(Trees[p], w, ic)}]]

RECURSIVE MatchingWords(_, _, _)

\* the rectangles of the words whose text the compiled pattern finds
MatchingWords(words, p, ic) ==
  IF words = <<>> THEN <<>>
  ELSE (IF Head(words).text \in Found[p][ic] THEN <<Head(words).rect>> ELSE <<>>)
       \o MatchingWords(Tail(words), p, ic)

RECURSIVE DirectFrom(_, _, _, _, _)

\* step 1 of find_and_redact_text_on_page from pattern n on: search_for, and on
\* its failure the word-by-word match; raised is set when re.compile raises
DirectFrom(page, pats, n, unsup, acc) ==
  IF n > Len(pats) THEN acc
  ELSE LET p == pats[n]
       IN  IF p \notin unsup
             THEN DirectFrom(page, pats, n + 1, unsup,
                    [acc EXCEPT !.marks = AddAnnots(@, SearchFor(page, p), "direct", p)])
           ELSE IF IsMalformed(p)
             THEN [acc EXCEPT !.raised = TRUE]
           ELSE DirectFrom(page, pats, n + 1, unsup,
                    [acc EXCEPT !.marks =
                       AddAnnots(@, MatchingWords(GetWords(page), p, InlineIgnoreCase(p)),
                                 "fallback", p)])

DirectPass(page, pats, unsup) ==
  DirectFrom(page, pats, 1, unsup, [marks |-> page.annots, raised |-> FALSE])

(***************************************************************************)
(* OCR                                                                     *)
(***************************************************************************)
\* page.get_pixmap(dpi): width and height in pixels
Pixmap(page, dpi) ==
  [width |-> (RectWidth(PageRect) * dpi) \div PointsPerInch,
   height |-> (RectHeight(PageRect) * dpi) \div PointsPerInch]

\* the words the rendered page shows: the text layer in row 0, the image in row 1
ShownWords(page) ==
  LET ws == WordsFrom(page.line, 1)
      is == WordsFrom(page.img, 1)
  IN  [n \in 1..Len(ws) |->
         [rect |-> CellRect(ws[n][1], ws[n][2], 0),
          text |-> SubSeq(page.line, ws[n][1], ws[n][2] - 1)]]
      \o
      [n \in 1..Len(is) |->
         [rect |-> CellRect(is[n][1], is[n][2], 1),
          text |-> SubSeq(page.img, is[n][1], is[n][2] - 1)]]

\* pytesseract.image_to_data on the rendering of the words shown: one row
\* for the page, with no text and confidence -1, and one row per word; a
\* word of sure is read with confidence 80 and any other with confidence 60;
\* boxes are in pixels
ImageToData(shown, pix, sure) ==
  LET px(v) == (v * ocr_dpi) \div PointsPerInch
  IN  <<[text |-> <<>>, conf |-> -1, left |-> 0, top |-> 0,
         width |-> pix.width, height |-> pix.height]>>
      \o
      [n \in 1..Len(shown) |->
         [text |-> shown[n].text,
          conf |-> IF n \in sure THEN 80 ELSE 60,
          left |-> px(shown[n].rect.x0), top |-> px(shown[n].rect.y0),
          width |-> px(RectWidth(shown[n].rect)),
          height |-> px(RectHeight(shown[n].rect))]]

\* what rasterizing a page and running the OCR engine on it may give: an
\* exception, or the table of rows
OcrOutcomes(page) ==
  LET shown == ShownWords(page)
      pix == Pixmap(page, ocr_dpi)
  IN  {[error |-> TRUE, data |-> <<>>]}
        \cup {[error |-> FALSE, data |-> ImageToData(shown, pix, S)] :
                S \in SUBSET (1..Len(shown))}

\* the scaling of a pixel box to page coordinates
Remap(row, pix) ==
  [x0 |-> (row.left * RectWidth(PageRect)) \div pix.width,
   y0 |-> (row.top * RectHeight(PageRect)) \div pix.height,
   x1 |-> ((row.left + row.width) * RectWidth(PageRect)) \div pix.width,
   y1 |-> ((row.top + row.height) * RectHeight(PageRect)) \div pix.height]

RECURSIVE OcrRows(_, _)

\* the loop over the OCR rows: confident, non-empty rows with their page rectangle
OcrRows(rows, pix) ==
  IF rows = <<>> THEN <<>>
  ELSE LET row == Head(rows)
       IN  (IF row.conf > conf_threshold /\ Strip(row.text) # <<>>
              THEN <<[text |-> Strip(row.text), rect |-> Remap(row, pix)]>>
              ELSE <<>>)
           \o OcrRows(Tail(rows), pix)

\* ocr_page_to_get_text_and_boxes; outcome.error is an exception of the
\* rasterizer or of the OCR engine, caught with an empty list returned
ocr_page_to_get_text_and_boxes(page, outcome) ==
  IF outcome.error THEN <<>>
  ELSE OcrRows(outcome.data, Pixmap(page, ocr_dpi))

RECURSIVE OcrFrom(_, _, _, _)

\* the OCR matching loop from pattern n on, re.compile(p, re.IGNORECASE) first
OcrFrom(pats, n, insts, acc) ==
  IF n > Len(pats) THEN acc
  ELSE IF IsMalformed(pats[n]) THEN [acc EXCEPT !.raised = TRUE]
  ELSE OcrFrom(pats, n + 1, insts,
         [acc EXCEPT !.marks = AddAnnots(@, MatchingWords(insts, pats[n], TRUE), "ocr", pats[n])])

\* step 2 with the test of redacted_count left out
OcrTriggeredWithoutCount(page, count) ==
  is_likely_scanned_pdf(page) \/ Len(GetText(page)) < few_text_limit

\* the condition of step 2; count is redacted_count after step 1
OcrTriggered(page, count) ==
  is_likely_scanned_pdf(page) \/ (count = 0 /\ Len(GetText(page)) < few_text_limit)

(***************************************************************************)
(* Commit                                                                  *)
(***************************************************************************)
\* a row after the redactions: every cell under a mark is removed
Erase(row, y, marks) ==
  [i \in 1..Len(row) |->
     IF \E n \in 1..Len(marks) : Intersects(marks[n].rect, CellRect(i, i + 1, y))
       THEN Blank ELSE row[i]]

\* page.apply_redactions(): text and image pixels under the marks are removed
\* and the annotations are consumed
apply_redactions(page) ==
  [page EXCEPT !.line = Erase(page.line, 0, page.annots),
               !.img = Erase(page.img, 1, page.annots),
               !.annots = <<>>]

(***************************************************************************)
(* Inputs                                                                  *)
(***************************************************************************)
MaxPages == 2

MaxRuns == 2

MaxPatterns == 2

\* the pages documents are made of
PageContents ==
  {[line |-> LineScenarioA, filler |-> 0, img |-> NoText, annots |-> <<>>],
   [line |-> LineScenarioA, filler |-> 90, img |-> LineOther, annots |-> <<>>],
   [line |-> LineScenarioA, filler |-> 480, img |-> LineOther, annots |-> <<>>],
   [line |-> LineNoMatch, filler |-> 90, img |-> LineOther, annots |-> <<>>],
   [line |-> NoText, filler |-> 0, img |-> LineOther, annots |-> <<>>]}

\* a document has at least one page
Documents == UNION {[1..n -> PageContents] : n \in 1..MaxPages}

\* the input file: missing, unreadable, protected by a password, or readable
InputFiles ==
  {[kind |-> "missing", pages |-> <<>>], [kind |-> "corrupt", pages |-> <<>>]}
    \cup {[kind |-> k, pages |-> d] : k \in {"plain", "locked"}, d \in Documents}

\* the custom_patterns argument: None, a list, or something that is no list
CustomArgs ==
  {[kind |-> "none", items |-> <<>>],
   [kind |-> "list", items |-> <<PatCustom>>],
   [kind |-> "list", items |-> <<PatMalformed>>],
   [kind |-> "other", items |-> <<>>]}

\* the pattern lists find_and_redact_text_on_page is called with directly
PatternLists ==
  UNION {[1..n -> {PatSpecific, PatGeneric, PatCustom, PatMalformed}] : n \in 0..MaxPatterns}

\* the patterns the document engine's search cannot evaluate: none, any one
\* of them, or all of them
EngineLimits == {{}} \cup {{p} : p \in PatternUniverse} \cup {PatternUniverse}

(***************************************************************************)
(* State                                                                   *)
(***************************************************************************)
VARIABLES
  mode,              \* "main": redact_account_numbers_from_pdf runs; "page":
                     \* find_and_redact_text_on_page is called on one page
  input,             \* the file at input_pdf_path
  custom,            \* the custom_patterns argument
  unsupported,       \* the patterns search_for fails on
  pc,                \* the position of the run
  run,               \* 1 for the first call on a page, 2 for a call after it
  patterns,          \* patterns_to_redact of the current call
  doc,               \* the pages of the open document
  page_num,          \* the loop variable of the driver
  redacted_count,    \* redacted_count of the current call
  total_redactions,  \* total_redactions of the driver
  hist,              \* per page of this run: what the call did
  output,            \* the file at output_pdf_path
  saves              \* the number of doc.save calls of this run

vars == <<mode, input, custom, unsupported, pc, run, patterns, doc, page_num,
          redacted_count, total_redactions, hist, output, saves>>

NoOutput == [written |-> FALSE, pages |-> <<>>]

\* the record of a call of find_and_redact_text_on_page that has just begun:
\* the page as passed in, the count the call before it on this page returned
\* (-1 when there was none), then what the call does: the count after step
\* 1, what became of the OCR pass, the count returned and the regions committed
Begun(page, prior) ==
  [before |-> page, prior |-> prior, state |-> "running", ocr |-> "pending",
   first |-> 0, count |-> 0, marks |-> <<>>]

\* the page the current call works on
cur == page_num + 1

\* account_number_patterns after custom_patterns is taken in
PatternsWith(c) ==
  IF c.kind # "none" /\ (c.kind = "other" \/ c.items # <<>>)
    THEN IF c.kind = "list" THEN account_number_patterns \o c.items
         ELSE account_number_patterns
    ELSE account_number_patterns

RECURSIVE EffectiveFrom(_, _, _)

\* the loop that builds effective_patterns: either branch appends the pattern
EffectiveFrom(ps, n, acc) ==
  IF n > Len(ps) THEN acc ELSE EffectiveFrom(ps, n + 1, Append(acc, ps[n]))

effective_patterns(ps) == EffectiveFrom(ps, 1, <<>>)

Init ==
  /\ mode \in {"main", "page"}
  /\ unsupported \in EngineLimits
  /\ run = 1
  /\ page_num = 0
  /\ redacted_count = 0
  /\ total_redactions = 0
  /\ output = NoOutput
  /\ saves = 0
  /\ IF mode = "main"
       THEN /\ input \in InputFiles
            /\ custom \in CustomArgs
            /\ pc = "start"
            /\ patterns = <<>>
            /\ doc = <<>>
            /\ hist = <<>>
       ELSE /\ \E pg \in PageContents :
                 /\ input = [kind |-> "plain", pages |-> <<pg>>]
                 /\ doc = <<pg>>
                 /\ hist = <<Begun(pg, -1)>>
            /\ custom = [kind |-> "none", items |-> <<>>]
            /\ pc = "direct"
            /\ patterns \in PatternLists

(***************************************************************************)
(* redact_account_numbers_from_pdf                                         *)
(***************************************************************************)
\* the input file does not exist: the function returns
InputMissing ==
  /\ pc = "start"
  /\ input.kind = "missing"
  /\ pc' = "done"
  /\ UNCHANGED <<mode, input, custom, unsupported, run, patterns, doc, page_num,
                 redacted_count, total_redactions, hist, output, saves>>

\* fitz.open and total_redactions = 0
Open ==
  /\ pc = "start"
  /\ input.kind \in {"plain", "locked"}
  /\ doc' = input.pages
  /\ total_redactions' = 0
  /\ page_num' = 0
  /\ pc' = "load"
  /\ UNCHANGED <<mode, input, custom, unsupported, run, patterns, redacted_count,
                 hist, output, saves>>

\* fitz.open raises on a file it cannot read
OpenFails ==
  /\ pc = "start"
  /\ input.kind = "corrupt"
  /\ pc' = "failed"
  /\ UNCHANGED <<mode, input, custom, unsupported, run, patterns, doc, page_num,
                 redacted_count, total_redactions, hist, output, saves>>

\* an engine that loads the pages of a document that still needs a password
LoadPageRaisesNever(f) == FALSE

\* doc.load_page raises on a document that was opened but still needs a password
LoadPageRaises(f) == f.kind = "locked"

\* doc.load_page of the next page and the call of find_and_redact_text_on_page
LoadPage ==
  /\ pc = "load"
  /\ page_num < Len(doc)
  /\ ~LoadPageRaises(input)
  /\ patterns' = effective_patterns(PatternsWith(custom))
  /\ redacted_count' = 0
  /\ hist' = Append(hist, Begun(doc[cur], -1))
  /\ pc' = "direct"
  /\ UNCHANGED <<mode, input, custom, unsupported, run, doc, page_num,
                 total_redactions, output, saves>>

\* doc.load_page raises on a document that is still encrypted
LoadPageFails ==
  /\ pc = "load"
  /\ page_num < Len(doc)
  /\ LoadPageRaises(input)
  /\ pc' = "failed"
  /\ UNCHANGED <<mode, input, custom, unsupported, run, patterns, doc, page_num,
                 redacted_count, total_redactions, hist, output, saves>>

\* a driver that saves a copy whatever the total
ShouldSaveAlways(total) == TRUE

\* the test before doc.save
ShouldSave(total) == total > 0

\* after the loop: doc.save when total_redactions > 0, then doc.close
Finish ==
  /\ pc = "load"
  /\ page_num >= Len(doc)
  /\ IF ShouldSave(total_redactions)
       THEN output' = [written |-> TRUE, pages |-> doc] /\ saves' = saves + 1
       ELSE UNCHANGED <<output, saves>>
  /\ pc' = "done"
  /\ UNCHANGED <<mode, input, custom, unsupported, run, patterns, doc, page_num,
                 redacted_count, total_redactions, hist>>

(***************************************************************************)
(* find_and_redact_text_on_page                                            *)
(***************************************************************************)
\* where an exception of the call ends: the handler of the driver, or the caller
Raised == IF mode = "main" THEN "failed" ELSE "raised"

\* step 1: every pattern by search_for or, on its failure, word by word
Direct ==
  /\ pc = "direct"
  /\ LET res == DirectPass(doc[cur], patterns, unsupported)
         n == Len(res.marks) - Len(doc[cur].annots)
     IN  /\ doc' = [doc EXCEPT ![cur].annots = res.marks]
         /\ redacted_count' = n
         /\ hist' = [hist EXCEPT ![cur].first = n,
                                 ![cur].state = IF res.raised THEN "raised" ELSE @]
         /\ pc' = IF res.raised THEN Raised ELSE "ocr"
  /\ UNCHANGED <<mode, input, custom, unsupported, run, patterns, page_num,
                 total_redactions, output, saves>>

\* step 2 when its condition is false
SkipOcr ==
  /\ pc = "ocr"
  /\ ~OcrTriggered(doc[cur], redacted_count)
  /\ hist' = [hist EXCEPT ![cur].ocr = "skipped"]
  /\ pc' = "commit"
  /\ UNCHANGED <<mode, input, custom, unsupported, run, patterns, doc, page_num,
                 redacted_count, total_redactions, output, saves>>

\* step 2: the OCR pass and the match of every pattern against its tokens
Ocr ==
  /\ pc = "ocr"
  /\ OcrTriggered(doc[cur], redacted_count)
  /\ \E outcome \in OcrOutcomes(doc[cur]) :
       LET insts == ocr_page_to_get_text_and_boxes(doc[cur], outcome)
           res == OcrFrom(patterns, 1, insts, [marks |-> doc[cur].annots, raised |-> FALSE])
       IN  /\ doc' = [doc EXCEPT ![cur].annots = res.marks]
           /\ redacted_count' = redacted_count + Len(res.marks) - Len(doc[cur].annots)
           /\ hist' = [hist EXCEPT ![cur].ocr = IF outcome.error THEN "error" ELSE "done",
                                   ![cur].state = IF res.raised THEN "raised" ELSE @]
           /\ pc' = IF res.raised THEN Raised ELSE "commit"
  /\ UNCHANGED <<mode, input, custom, unsupported, run, patterns, page_num,
                 total_redactions, output, saves>>

\* apply_redactions when redacted_count > 0, the return, and in the driver
\* total_redactions += redactions_on_page
Commit ==
  /\ pc = "commit"
  /\ doc' = IF redacted_count > 0 THEN [doc EXCEPT ![cur] = apply_redactions(@)] ELSE doc
  /\ hist' = [hist EXCEPT ![cur].state = "returned",
                          ![cur].count = redacted_count,
                          ![cur].marks = IF redacted_count > 0 THEN doc[cur].annots ELSE <<>>]
  /\ IF mode = "main"
       THEN /\ total_redactions' = total_redactions + redacted_count
            /\ page_num' = page_num + 1
            /\ pc' = "load"
       ELSE /\ UNCHANGED <<total_redactions, page_num>>
            /\ pc' = "returned"
  /\ UNCHANGED <<mode, input, custom, unsupported, run, patterns, redacted_count,
                 output, saves>>

(***************************************************************************)
(* A second call on a page already redacted                                *)
(***************************************************************************)
\* find_and_redact_text_on_page is called again on the page it returned from
CallAgain ==
  /\ mode = "page"
  /\ pc = "returned"
  /\ run < MaxRuns
  /\ run' = run + 1
  /\ hist' = <<Begun(doc[cur], hist[cur].count)>>
  /\ redacted_count' = 0
  /\ pc' = "direct"
  /\ UNCHANGED <<mode, input, custom, unsupported, patterns, doc, page_num,
                 total_redactions, output, saves>>

Next ==
  \/ InputMissing
  \/ Open
  \/ OpenFails
  \/ LoadPage
  \/ LoadPageFails
  \/ Finish
  \/ Direct
  \/ SkipOcr
  \/ Ocr
  \/ Commit
  \/ CallAgain

Spec == Init /\ [][Next]_vars

(***************************************************************************)
(* Properties                                                              *)
(***************************************************************************)
Calls == 1..Len(hist)

Returned(p) == hist[p].state = "returned"

RECURSIVE SumCounts(_)

\* the sum of the counts the calls of this run returned
SumCounts(h) == IF h = <<>> THEN 0 ELSE Head(h).count + SumCounts(Tail(h))

\* C1: after find_and_redact_text_on_page has returned, no region it
\* committed on the page lies within another region committed on that page.
NoRegionContainsAnother ==
  \A p \in Calls :
    Returned(p) =>
      \A i, j \in 1..Len(hist[p].marks) :
        i # j => ~Contains(hist[p].marks[i].rect, hist[p].marks[j].rect)

\* C2: on a page the call has returned from, the regions from direct and
\* word-by-word matching come before the OCR regions, and no OCR region
\* intersects a region from direct or word-by-word matching.
OcrNeverOverlapsEarlierRegion ==
  \A p \in Calls :
    Returned(p) =>
      \A i, j \in 1..Len(hist[p].marks) :
        (hist[p].marks[i].prov # "ocr" /\ hist[p].marks[j].prov = "ocr")
          => (i < j /\ ~Intersects(hist[p].marks[i].rect, hist[p].marks[j].rect))

\* C3: when search_for fails for a pattern of the list, step 1 of the call
\* does not raise, every word the pattern finds is marked by word-by-word
\* matching, and only the patterns search_for fails for are matched that way.
EngineFailureFallsBack ==
  \A p \in Calls :
    (\E n \in 1..Len(patterns) : patterns[n] \in unsupported) =>
      /\ ~(hist[p].state = "raised" /\ hist[p].ocr = "pending")
      /\ (p = cur /\ pc = "ocr") =>
           /\ \A n \in 1..Len(patterns) :
                patterns[n] \in unsupported =>
                  \A w \in 1..Len(GetWords(doc[p])) :
                    GetWords(doc[p])[w].text \in Found[patterns[n]][InlineIgnoreCase(patterns[n])]
                      => \E m \in 1..Len(doc[p].annots) :
                           doc[p].annots[m] = [rect |-> GetWords(doc[p])[w].rect,
                                               prov |-> "fallback", pat |-> patterns[n]]
           /\ \A m \in 1..Len(doc[p].annots) :
                (doc[p].annots[m].prov = "fallback") = (doc[p].annots[m].pat \in unsupported)

\* C4: a malformed pattern in the list never makes a call raise: no regular
\* expression fails to compile while a page is matched, and the run is not
\* aborted by it.
MalformedPatternNeverAborts ==
  \A p \in Calls : hist[p].state # "raised"

\* C5: when the OCR pass of a page fails, the call still returns: it does
\* not raise, and it returns the count of step 1 with the regions of step 1.
OcrFailureRecovered ==
  \A p \in Calls :
    hist[p].ocr = "error" =>
      /\ hist[p].state # "raised"
      /\ Returned(p) => hist[p].count = hist[p].first

SecondCallFindsNothing ==
  \A p \in Calls :
    (hist[p].prior > 0 /\ Returned(p)) => (hist[p].count = 0 /\ hist[p].marks = <<>>)

\* the page of scenario A and the rectangle of "123456789" on it
ScenarioAPage == [line |-> LineScenarioA, filler |-> 0, img |-> NoText, annots |-> <<>>]

ScenarioANumber == CellRect(17, 26, 0)

\* C8: the call on the page of scenario A with the single pattern
\* \b\d{8,17}\b returns 1, and its one region is the rectangle of "123456789".
ScenarioAOneRegion ==
  (mode = "page" /\ run = 1 /\ patterns = <<PatCustom>> /\ hist[1].before = ScenarioAPage
     /\ Returned(1))
    => /\ hist[1].count = 1
       /\ Len(hist[1].marks) = 1
       /\ hist[1].marks[1].rect = ScenarioANumber

\* the condition C9 states, on the page as loaded and the count of step 1
SaidToTrigger(page, count) ==
  \/ Len(Strip(GetText(page))) < 100
  \/ (count = 0 /\ GetText(page) # <<>> /\ Len(GetText(page)) < 500)

OcrRan(p) == hist[p].ocr \in {"done", "error"}

\* C9: once step 2 of a call has been decided, the OCR pass has run if and
\* only if the stripped text is shorter than 100 characters, or step 1 made
\* no match and the text is non-empty and shorter than 500 characters; on a
\* page with at least 100 stripped characters and a match of step 1 the OCR
\* pass never runs.
OcrRunsIffTriggered ==
  \A p \in Calls :
    /\ hist[p].ocr # "pending" => (OcrRan(p) <=> SaidToTrigger(hist[p].before, hist[p].first))
    /\ (Len(Strip(GetText(hist[p].before))) >= 100 /\ hist[p].first > 0) => ~OcrRan(p)

\* C9, witness: the OCR pass ran on a page with at least 100 stripped
\* characters of text, and was skipped on another call.
OcrRanOnPromotedPage ==
  \E p \in Calls :
    /\ hist[p].ocr = "done"
    /\ Len(Strip(GetText(hist[p].before))) >= 100
    /\ hist[p].first = 0

\* every page of the document was processed, in index order, and returned
AllPagesReturned ==
  /\ Len(hist) = Len(input.pages)
  /\ \A p \in Calls : Returned(p) /\ hist[p].before = input.pages[p]

\* C10: the output file is written at most once; it is written if and only
\* if the run has ended with every page processed in order and a sum of the
\* page counts above zero; a run that failed wrote nothing, and a run that
\* ended with a sum of zero wrote nothing.
OutputAllOrNothing ==
  mode = "main" =>
    /\ saves <= 1
    /\ output.written <=> saves = 1
    /\ output.written => (pc = "done" /\ AllPagesReturned /\ SumCounts(hist) > 0)
    /\ (pc = "done" /\ input.kind # "missing" /\ SumCounts(hist) > 0) => output.written
    /\ pc = "done" => (input.kind = "missing" \/ AllPagesReturned)
    /\ pc = "failed" => ~output.written
    /\ (pc = "done" /\ SumCounts(hist) = 0) => ~output.written

\* C10, witness: a run failed on its second page after the first page had
\* its redactions committed, and no file was written.
FailedAfterCommittedPage ==
  /\ mode = "main"
  /\ pc = "failed"
  /\ Len(hist) = 2
  /\ Returned(1)
  /\ hist[1].count > 0
  /\ doc[1] # input.pages[1]
  /\ ~output.written

====
